---- MODULE Spec2Model ----
(***************************************************************************)
(* Model of the Gemini chat application.                                   *)
(*                                                                         *)
(*   - the chat endpoint, POST of app/api/chat/route.ts: one request at a  *)
(*     time is followed through req.json(), the credential check, the      *)
(*     provider call (streamText) and the catch block that classifies the  *)
(*     failure (specification SpecEndpoint);                               *)
(*   - the chat page, ChatPage of the client component: draft, history,    *)
(*     loading flag, error, cooldown counter, typing indicator and the     *)
(*     requests in flight (specification Spec).                            *)
(*                                                                         *)
(* Text is modelled as a sequence of tokens.  A token stands for a piece   *)
(* of text; Fragments(tok) lists the search strings of the program that    *)
(* occur inside it, so String.prototype.includes is a search, not a flag.  *)
(***************************************************************************)
EXTENDS Integers, Sequences, FiniteSets, TLC

VARIABLES
    \* ---- endpoint (route.ts) ----
    apiKey,          \* process.env.GOOGLE_GENERATIVE_AI_API_KEY is set
    pc,              \* position of the handler: idle, json, key, streamText, catch, done
    body,            \* the request body being handled
    caught,          \* the value bound by catch (error: any)
    response,        \* what POST returned (or that it rejected)
    streamTextCalled,\* the provider call was reached for this request
    \* ---- chat page ----
    input,           \* useChat input (the draft)
    messages,        \* useChat messages (the history)
    isLoading,       \* useChat isLoading
    error,           \* useChat error
    rateLimitCooldown,
    isTyping,
    typingTimer,     \* the setTimeout of onSubmit is pending
    inFlight,        \* requests to the endpoint not yet settled
    assistantOpen,   \* the last message is the assistant message being streamed
    toast,           \* title of the last toast shown by onError
    lastEvent        \* the handler that ran last, and what it decided

endpointVars == <<apiKey, pc, body, caught, response, streamTextCalled>>
pageVars == <<input, messages, isLoading, error, rateLimitCooldown, isTyping,
              typingTimer, inFlight, assistantOpen, toast, lastEvent>>
vars == <<endpointVars, pageVars>>

(***************************************************************************)
(* Bounds of the model.                                                    *)
(***************************************************************************)
MaxMsgLen == 2      \* tokens in an error message
MaxDraftLen == 1    \* characters in a typed draft
MaxMessages == 3    \* messages in the history
MaxInFlight == 2    \* requests outstanding at once

(***************************************************************************)
(* Text.                                                                   *)
(***************************************************************************)
Tokens == {"quota", "exceeded", "rate limit", "authentication", "other"}

\* The search strings of the program that occur inside a token.
Fragments(tok) ==
    CASE tok = "quota" -> {"quota"}
      [] tok = "exceeded" -> {"exceeded"}
      [] tok = "rate limit" -> {"rate limit"}
      [] tok = "authentication" -> {"authentication"}
      [] tok = "quota_exceeded" -> {"quota", "exceeded"}
      [] OTHER -> {}

SeqsUpTo(S, n) == UNION {[1..k -> S] : k \in 0..n}

\* String.prototype.includes over token text.
Includes(text, needle) == \E i \in 1..Len(text) : needle \in Fragments(text[i])

(***************************************************************************)
(* Values a JavaScript throw can deliver to the catch block.               *)
(*   kind    "nullish": null or undefined was thrown; "value": anything    *)
(*           else (an Error, an object, a primitive)                       *)
(*   msgKind "string": .message is a string (msg); "undefined": .message   *)
(*           is undefined or null; "nonstring": .message is some other     *)
(*           value, which has no includes method                           *)
(*   status  .status, 0 when the value has none                            *)
(***************************************************************************)
Statuses == {0, 401, 429, 503}

Nullish == [kind |-> "nullish", msgKind |-> "undefined", msg |-> <<>>, status |-> 0]

ErrorValue(msgKind, msg, status) ==
    [kind |-> "value", msgKind |-> msgKind, msg |-> msg, status |-> status]

ThrownValues ==
    {Nullish}
    \cup {ErrorValue("string", m, s) : m \in SeqsUpTo(Tokens, MaxMsgLen), s \in Statuses}
    \cup {ErrorValue(k, <<>>, s) : k \in {"undefined", "nonstring"}, s \in Statuses}

\* error.message?.includes(needle), when it evaluates to a value
MessageIncludes(e, needle) == e.msgKind = "string" /\ Includes(e.msg, needle)

\* Evaluating error.message?.includes(...) itself throws a TypeError: error
\* is null or undefined, or error.message is not nullish and not a string.
ConditionThrows(e) == e.kind = "nullish" \/ e.msgKind = "nonstring"

(***************************************************************************)
(* The responses of POST.                                                  *)
(***************************************************************************)
NoResponse == [kind |-> "none"]
Escaped == [kind |-> "escaped"]         \* POST rejected: no response was returned
StreamResponse == [kind |-> "stream", status |-> 200]
JsonResponse(status, json) == [kind |-> "json", status |-> status, body |-> json]

ApiKeyMissingResponse ==
    JsonResponse(500, [error |-> <<"other">>])

QuotaResponse ==
    JsonResponse(429, [error |-> <<"other", "quota", "exceeded", "other">>,
                       type |-> "quota_exceeded"])

RateLimitResponse ==
    JsonResponse(429, [error |-> <<"Rate limit", "exceeded", "other">>,
                       type |-> "rate_limit"])

AuthResponse ==
    JsonResponse(401, [error |-> <<"other">>, type |-> "auth_error"])

\* JSON.stringify drops a key whose value is undefined.
GenericResponse(e) ==
    IF e.msgKind = "string"
    THEN JsonResponse(500, [error |-> <<"other">>, type |-> "generic_error",
                            details |-> e.msg])
    ELSE JsonResponse(500, [error |-> <<"other">>, type |-> "generic_error"])

IsQuota(e) == MessageIncludes(e, "quota") \/ MessageIncludes(e, "exceeded")

IsRateLimitMutantNoStatus(e) == MessageIncludes(e, "rate limit")
IsRateLimit(e) == MessageIncludes(e, "rate limit") \/ e.status = 429

IsAuthMutantNoStatus(e) == MessageIncludes(e, "authentication")
IsAuth(e) == MessageIncludes(e, "authentication") \/ e.status = 401

\* The catch block of POST.
CatchMutantRateLimitFirst(e) ==
    IF ConditionThrows(e) THEN Escaped
    ELSE IF IsRateLimit(e) THEN RateLimitResponse
    ELSE IF IsQuota(e) THEN QuotaResponse
    ELSE IF IsAuth(e) THEN AuthResponse
    ELSE GenericResponse(e)
Catch(e) ==
    IF ConditionThrows(e) THEN Escaped
    ELSE IF IsQuota(e) THEN QuotaResponse
    ELSE IF IsRateLimit(e) THEN RateLimitResponse
    ELSE IF IsAuth(e) THEN AuthResponse
    ELSE GenericResponse(e)

(***************************************************************************)
(* Request bodies.  A body is text; req.json() parses it or throws.        *)
(*   kind "object":  parses to a value that can be destructured            *)
(*        "null":    parses to null, so the destructuring throws a         *)
(*                   TypeError with a fixed message                        *)
(*        "invalid": JSON.parse throws a SyntaxError.  Its message is      *)
(*                   fixed by the JavaScript engine: older engines name    *)
(*                   the offending character and its position, newer ones  *)
(*                   quote the source text, so the message may carry the   *)
(*                   body's text.                                          *)
(***************************************************************************)
Bodies == [kind : {"object", "null", "invalid"}, text : SeqsUpTo(Tokens, MaxMsgLen)]

NoError == [kind |-> "none"]

JsonErrors(b) ==
    IF b.kind = "null"
    THEN {ErrorValue("string", <<"other">>, 0)}
    ELSE {ErrorValue("string", <<"other">>, 0),
          ErrorValue("string", <<"other">> \o b.text \o <<"other">>, 0)}

(***************************************************************************)
(* The endpoint: POST, one step per await or branch.                       *)
(***************************************************************************)
EndpointInit ==
    /\ apiKey \in BOOLEAN
    /\ pc = "idle"
    /\ body = [kind |-> "object", text |-> <<>>]
    /\ caught = NoError
    /\ response = NoResponse
    /\ streamTextCalled = FALSE

\* A request arrives and POST starts.
Receive(b) ==
    /\ UNCHANGED pageVars
    /\ pc = "idle"
    /\ pc' = "json"
    /\ body' = b
    /\ caught' = NoError
    /\ response' = NoResponse
    /\ streamTextCalled' = FALSE
    /\ UNCHANGED apiKey

\* const { messages } = await req.json()
ReqJson ==
    /\ UNCHANGED pageVars
    /\ pc = "json"
    /\ IF body.kind = "object"
       THEN pc' = "key" /\ UNCHANGED caught
       ELSE /\ \E e \in JsonErrors(body) : caught' = e
            /\ pc' = "catch"
    /\ UNCHANGED <<apiKey, body, response, streamTextCalled>>

\* if (!process.env.GOOGLE_GENERATIVE_AI_API_KEY) return new Response(...)
CheckApiKey ==
    /\ UNCHANGED pageVars
    /\ pc = "key"
    /\ IF ~apiKey
       THEN response' = ApiKeyMissingResponse /\ pc' = "done"
       ELSE pc' = "streamText" /\ UNCHANGED response
    /\ UNCHANGED <<apiKey, body, caught, streamTextCalled>>

\* await streamText(...); return result.toAIStreamResponse()
\* The call returns a stream, or anything it throws lands in the catch block.
StreamText ==
    /\ UNCHANGED pageVars
    /\ pc = "streamText"
    /\ streamTextCalled' = TRUE
    /\ \/ response' = StreamResponse /\ pc' = "done" /\ UNCHANGED caught
       \/ \E e \in ThrownValues :
            caught' = e /\ pc' = "catch" /\ UNCHANGED response
    /\ UNCHANGED <<apiKey, body>>

\* catch (error: any) { ... }
CatchBlock ==
    /\ UNCHANGED pageVars
    /\ pc = "catch"
    /\ response' = Catch(caught)
    /\ pc' = "done"
    /\ UNCHANGED <<apiKey, body, caught, streamTextCalled>>

\* The response has been handed to the transport and the call is over: the
\* handler keeps nothing between requests.
Return ==
    /\ UNCHANGED pageVars
    /\ pc = "done"
    /\ pc' = "idle"
    /\ body' = [kind |-> "object", text |-> <<>>]
    /\ caught' = NoError
    /\ response' = NoResponse
    /\ streamTextCalled' = FALSE
    /\ UNCHANGED apiKey

NextEndpoint ==
    \/ \E b \in Bodies : Receive(b)
    \/ ReqJson
    \/ CheckApiKey
    \/ StreamText
    \/ CatchBlock
    \/ Return

(***************************************************************************)
(* The chat page.                                                          *)
(*                                                                         *)
(* A draft is a sequence of characters, "a" for any non-blank character    *)
(* and " " for white space.                                                *)
(***************************************************************************)
Chars == {"a", " "}
Drafts == SeqsUpTo(Chars, MaxDraftLen)

RECURSIVE TrimStart(_)
TrimStart(s) ==
    IF s # <<>> /\ Head(s) = " " THEN TrimStart(Tail(s)) ELSE s

RECURSIVE TrimEnd(_)
TrimEnd(s) ==
    IF s # <<>> /\ s[Len(s)] = " " THEN TrimEnd(SubSeq(s, 1, Len(s) - 1)) ELSE s

\* String.prototype.trim
Trim(s) == TrimEnd(TrimStart(s))

\* The prompt a welcome card puts in the draft ("What time is it?", ...).
CardPrompt == <<"a", " ", "a">>

\* The text of a JSON error body, as response.text() delivers it: the values
\* of error, type and details in the order JSON.stringify writes them.
ResponseText(r) ==
    r.body.error
    \o (IF "type" \in DOMAIN r.body THEN <<r.body.type>> ELSE <<>>)
    \o (IF "details" \in DOMAIN r.body THEN r.body.details ELSE <<>>)

\* What the page can receive as error.message: the text of an error response
\* of the endpoint (the page always sends a JSON object, so req.json()
\* succeeds), or the message of a failure with no JSON body (the fetch
\* failed, the handler rejected, the stream broke).
ClientErrorMessages ==
    {ResponseText(r) : r \in ({Catch(e) : e \in ThrownValues} \ {Escaped})}
    \cup {ResponseText(ApiKeyMissingResponse)}
    \cup {<<"other">>}

NoClientError == [set |-> FALSE, message |-> <<>>]
ClientError(m) == [set |-> TRUE, message |-> m]

\* onError: the title of the toast
ToastTitle(m) ==
    IF Includes(m, "quota") THEN "Quota Exceeded"
    ELSE IF Includes(m, "rate limit") THEN "Rate Limited"
    ELSE "Error"

\* The text of the error banner (AlertDescription)
BannerText(m) ==
    IF Includes(m, "quota") THEN "API quota exceeded"
    ELSE IF Includes(m, "rate limit") THEN "Rate limit exceeded"
    ELSE "Unable to connect"

\* disabled= of the Input and of the submit Button
InputDisabled == isLoading \/ rateLimitCooldown > 0
SubmitDisabled == isLoading \/ Trim(input) = <<>> \/ rateLimitCooldown > 0

\* The welcome screen with its prompt cards is rendered.
WelcomeVisible == Len(messages) = 0 /\ ~error.set

CooldownStart == 3

UserMessage(text) == [role |-> "user", content |-> text]
AssistantMessage == [role |-> "assistant", content |-> <<>>]

PageInit ==
    /\ input = <<>>
    /\ messages = <<>>
    /\ isLoading = FALSE
    /\ error = NoClientError
    /\ rateLimitCooldown = 0
    /\ isTyping = FALSE
    /\ typingTimer = FALSE
    /\ inFlight = 0
    /\ assistantOpen = FALSE
    /\ toast = "none"
    /\ lastEvent = "load"

\* useChat: a request to the endpoint starts with the given history.
TriggerRequest(history) ==
    /\ messages' = history
    /\ error' = NoClientError
    /\ isLoading' = TRUE
    /\ inFlight' = inFlight + 1
    /\ assistantOpen' = FALSE

\* The user types in the Input, which must be enabled.
HandleInputChange(v) ==
    /\ UNCHANGED endpointVars
    /\ ~InputDisabled
    /\ input' = v
    /\ lastEvent' = "handleInputChange"
    /\ UNCHANGED <<messages, isLoading, error, rateLimitCooldown, isTyping,
                   typingTimer, inFlight, assistantOpen, toast>>

\* The user clicks a prompt card of the welcome screen.
CardClick ==
    /\ UNCHANGED endpointVars
    /\ WelcomeVisible
    /\ input' = CardPrompt
    /\ lastEvent' = "card"
    /\ UNCHANGED <<messages, isLoading, error, rateLimitCooldown, isTyping,
                   typingTimer, inFlight, assistantOpen, toast>>

\* The guard of onSubmit: if (!input.trim() || rateLimitCooldown > 0) return
SubmitRejectedMutantNoTrim(draft, cooldown) == draft = <<>> \/ cooldown > 0
SubmitRejected(draft, cooldown) == Trim(draft) = <<>> \/ cooldown > 0

\* The form's submit event: onSubmit, with handleSubmit of useChat (which
\* returns at once on an empty input, else appends the user message, starts
\* the request and clears the input).
OnSubmit ==
    /\ UNCHANGED endpointVars
    /\ IF SubmitRejected(input, rateLimitCooldown)
       THEN /\ lastEvent' = "onSubmit:return"
            /\ UNCHANGED <<input, messages, isLoading, error, rateLimitCooldown,
                           isTyping, typingTimer, inFlight, assistantOpen, toast>>
       ELSE /\ inFlight < MaxInFlight
            /\ Len(messages) < MaxMessages
            /\ isTyping' = TRUE
            /\ IF input = <<>>
               THEN UNCHANGED <<input, messages, isLoading, error, inFlight,
                                assistantOpen>>
               ELSE /\ TriggerRequest(Append(messages, UserMessage(input)))
                    /\ input' = <<>>
            /\ rateLimitCooldown' = CooldownStart
            /\ typingTimer' = TRUE
            /\ lastEvent' = "onSubmit:handleSubmit"
            /\ UNCHANGED toast

\* setTimeout(() => setIsTyping(false), 1000)
TypingTimeout ==
    /\ UNCHANGED endpointVars
    /\ typingTimer
    /\ isTyping' = FALSE
    /\ typingTimer' = FALSE
    /\ lastEvent' = "typingTimeout"
    /\ UNCHANGED <<input, messages, isLoading, error, rateLimitCooldown,
                   inFlight, assistantOpen, toast>>

\* setRateLimitCooldown(rateLimitCooldown - 1)
CooldownAfterTickMutantBy2(c) == c - 2
CooldownAfterTick(c) == c - 1

\* The cooldown effect's one-second timer fires.  The typing timer of the
\* same submit has the same delay and was set first (in the handler, before
\* the effect ran), so it has fired already.
Tick ==
    /\ UNCHANGED endpointVars
    /\ rateLimitCooldown > 0
    /\ ~typingTimer
    /\ rateLimitCooldown' = CooldownAfterTick(rateLimitCooldown)
    /\ lastEvent' = "tick"
    /\ UNCHANGED <<input, messages, isLoading, error, isTyping, typingTimer,
                   inFlight, assistantOpen, toast>>

\* The first part of a streamed response arrives: the assistant message is
\* appended to the history (later parts extend it).
ResponseChunk ==
    /\ UNCHANGED endpointVars
    /\ inFlight > 0
    /\ ~assistantOpen
    /\ Len(messages) < MaxMessages
    /\ messages' = Append(messages, AssistantMessage)
    /\ assistantOpen' = TRUE
    /\ lastEvent' = "chunk"
    /\ UNCHANGED <<input, isLoading, error, rateLimitCooldown, isTyping,
                   typingTimer, inFlight, toast>>

\* The response ends normally.
ResponseFinish ==
    /\ UNCHANGED endpointVars
    /\ inFlight > 0
    /\ inFlight' = inFlight - 1
    /\ isLoading' = FALSE
    /\ assistantOpen' = FALSE
    /\ lastEvent' = "finish"
    /\ UNCHANGED <<input, messages, error, rateLimitCooldown, isTyping,
                   typingTimer, toast>>

\* The request fails, before or while streaming: useChat sets error and
\* calls onError.
ResponseError(m) ==
    /\ UNCHANGED endpointVars
    /\ inFlight > 0
    /\ inFlight' = inFlight - 1
    /\ isLoading' = FALSE
    /\ assistantOpen' = FALSE
    /\ error' = ClientError(m)
    /\ toast' = ToastTitle(m)
    /\ lastEvent' = "error"
    /\ UNCHANGED <<input, messages, rateLimitCooldown, isTyping, typingTimer>>

\* useChat reload: the last message, if it is the assistant's, is dropped
\* and the history is sent again.
ReloadHistory(history) ==
    IF history[Len(history)].role = "assistant"
    THEN SubSeq(history, 1, Len(history) - 1)
    ELSE history

\* The Retry button, rendered while error is set: retryLastMessage.
RetryLastMessage ==
    /\ UNCHANGED endpointVars
    /\ error.set
    /\ IF Len(messages) > 0
       THEN /\ inFlight < MaxInFlight
            /\ TriggerRequest(ReloadHistory(messages))
            /\ lastEvent' = "retry:reload"
       ELSE /\ lastEvent' = "retry:return"
            /\ UNCHANGED <<messages, isLoading, error, inFlight, assistantOpen>>
    /\ UNCHANGED <<input, rateLimitCooldown, isTyping, typingTimer, toast>>

\* The "Stop generating" button, rendered while loading: stop of useChat
\* aborts the current request.
Stop ==
    /\ UNCHANGED endpointVars
    /\ isLoading
    /\ inFlight' = inFlight - 1
    /\ isLoading' = FALSE
    /\ assistantOpen' = FALSE
    /\ lastEvent' = "stop"
    /\ UNCHANGED <<input, messages, error, rateLimitCooldown, isTyping,
                   typingTimer, toast>>

\* clearChat: window.location.reload() discards the page and loads it anew.
ClearChat ==
    /\ UNCHANGED endpointVars
    /\ lastEvent # "load"
    /\ input' = <<>>
    /\ messages' = <<>>
    /\ isLoading' = FALSE
    /\ error' = NoClientError
    /\ rateLimitCooldown' = 0
    /\ isTyping' = FALSE
    /\ typingTimer' = FALSE
    /\ inFlight' = 0
    /\ assistantOpen' = FALSE
    /\ toast' = "none"
    /\ lastEvent' = "load"

Next ==
    \/ \E v \in Drafts : HandleInputChange(v)
    \/ CardClick
    \/ OnSubmit
    \/ TypingTimeout
    \/ Tick
    \/ ResponseChunk
    \/ ResponseFinish
    \/ \E m \in ClientErrorMessages : ResponseError(m)
    \/ RetryLastMessage
    \/ Stop
    \/ ClearChat

(***************************************************************************)
(* Specifications.  Spec is the chat page; SpecEndpoint is the endpoint    *)
(* under requests of any caller.                                           *)
(***************************************************************************)
Init == EndpointInit /\ apiKey = TRUE /\ PageInit
Spec == Init /\ [][Next]_vars

InitEndpoint == EndpointInit /\ PageInit
SpecEndpoint == InitEndpoint /\ [][NextEndpoint]_vars

(***************************************************************************)
(* Properties of the endpoint (checked under SpecEndpoint).                *)
(***************************************************************************)
\* POST has ended for a request that failed in the try block.
FailureCaught == pc = "done" /\ caught.kind # "none"

ResponseIs(status, type) ==
    /\ response.kind = "json"
    /\ response.status = status
    /\ "type" \in DOMAIN response.body
    /\ response.body.type = type

\* C1, as stated: a caught failure whose message contains "rate limit" or
\* whose status is 429 is answered 429 / rate_limit, unless its message
\* contains "quota".
C1_Original ==
    (/\ FailureCaught
     /\ MessageIncludes(caught, "rate limit") \/ caught.status = 429
     /\ ~MessageIncludes(caught, "quota"))
    => ResponseIs(429, "rate_limit")

\* C1, amended: a caught failure whose message is a string containing
\* "rate limit", or whose status is 429 and whose message is a string or
\* absent, is answered 429 / rate_limit, unless its message contains "quota"
\* or "exceeded" (then the quota classification wins).
C1_RateLimitUnlessQuotaOrExceeded ==
    (/\ FailureCaught
     /\ caught.kind = "value"
     /\ caught.msgKind # "nonstring"
     /\ MessageIncludes(caught, "rate limit") \/ caught.status = 429
     /\ ~MessageIncludes(caught, "quota")
     /\ ~MessageIncludes(caught, "exceeded"))
    => ResponseIs(429, "rate_limit")

C1_Witness ==
    /\ FailureCaught
    /\ caught.status = 429
    /\ caught.msgKind = "string"
    /\ ~MessageIncludes(caught, "rate limit")
    /\ response = RateLimitResponse

\* C2, as stated: a caught failure whose message contains "authentication"
\* or whose status is 401 is answered 401 / auth_error.
C2_Original ==
    (/\ FailureCaught
     /\ MessageIncludes(caught, "authentication") \/ caught.status = 401)
    => ResponseIs(401, "auth_error")

\* C2, amended: a caught failure whose message is a string containing
\* "authentication", or whose status is 401 and whose message is a string or
\* absent, is answered 401 / auth_error, unless an earlier check applies: the
\* message contains "quota", "exceeded" or "rate limit", or the status is 429.
C2_AuthUnlessEarlierCheck ==
    (/\ FailureCaught
     /\ caught.kind = "value"
     /\ caught.msgKind # "nonstring"
     /\ MessageIncludes(caught, "authentication") \/ caught.status = 401
     /\ ~MessageIncludes(caught, "quota")
     /\ ~MessageIncludes(caught, "exceeded")
     /\ ~MessageIncludes(caught, "rate limit")
     /\ caught.status # 429)
    => ResponseIs(401, "auth_error")

C2_Witness ==
    /\ FailureCaught
    /\ caught.status = 401
    /\ ~MessageIncludes(caught, "authentication")
    /\ response = AuthResponse

\* C3: a caught failure whose message contains "quota" is answered
\* 429 / quota_exceeded, whatever its status and whatever else the message
\* contains.
C3_QuotaAlwaysWins ==
    (FailureCaught /\ MessageIncludes(caught, "quota"))
    => ResponseIs(429, "quota_exceeded")

C3_Witness ==
    /\ FailureCaught
    /\ MessageIncludes(caught, "quota")
    /\ MessageIncludes(caught, "rate limit")
    /\ caught.status = 401
    /\ response = QuotaResponse

\* A request has ended in something other than the stream of a success.
Failed == pc = "done" /\ response.kind # "stream"

Classified ==
    /\ response.kind = "json"
    /\ "type" \in DOMAIN response.body
    /\ response.body.type \in {"quota_exceeded", "rate_limit", "auth_error"}

\* C4, as stated: every failure not classified as quota, rate limit or
\* authentication is answered 500 / generic_error with a details field that
\* is present and not empty.
C4_Original ==
    (Failed /\ ~Classified)
    => /\ ResponseIs(500, "generic_error")
       /\ "details" \in DOMAIN response.body
       /\ response.body.details # <<>>

\* C5, as stated: every failure path ends in a returned JSON error response
\* with a type field and a status among 401, 429, 500; nothing escapes POST.
C5_Original ==
    Failed
    => /\ response.kind = "json"
       /\ "type" \in DOMAIN response.body
       /\ response.status \in {401, 429, 500}

\* C6, as stated: with no credential configured every call is answered 500
\* and streamText is never reached, for any request body.
C6_Original ==
    ~apiKey
    => /\ ~streamTextCalled
       /\ pc = "done" => (response.kind = "json" /\ response.status = 500)

(***************************************************************************)
(* Properties of the chat page (checked under Spec).                       *)
(***************************************************************************)
SubmitStep == lastEvent' \in {"onSubmit:return", "onSubmit:handleSubmit"}
RetryStep == lastEvent' \in {"retry:return", "retry:reload"}

\* C7: a submit event received while the cooldown counter is above 0, or
\* while the draft is empty or white space only, changes nothing: draft,
\* history and counter stay, the typing indicator is not set and no request
\* is issued.
C7_RejectedSubmitChangesNothing ==
    [][(SubmitStep /\ (rateLimitCooldown > 0 \/ Trim(input) = <<>>))
       => /\ input' = input
          /\ messages' = messages
          /\ rateLimitCooldown' = rateLimitCooldown
          /\ isTyping' = isTyping
          /\ typingTimer' = typingTimer
          /\ inFlight' = inFlight
          /\ isLoading' = isLoading]_vars

C7_Witness ==
    /\ lastEvent = "onSubmit:return"
    /\ rateLimitCooldown > 0
    /\ inFlight = 1

\* The steps of the cooldown counter: 3 after an accepted submit, one less
\* after each tick, never below 0, unchanged by anything else but a page
\* load, and the Input disabled while it is above 0.
CooldownSteps ==
    /\ lastEvent' = "onSubmit:handleSubmit" => rateLimitCooldown' = 3
    /\ lastEvent' = "tick"
         => rateLimitCooldown > 0 /\ rateLimitCooldown' = rateLimitCooldown - 1
    /\ lastEvent' \notin {"onSubmit:handleSubmit", "tick", "load"}
         => rateLimitCooldown' = rateLimitCooldown
    /\ rateLimitCooldown' \in 0..3
    /\ rateLimitCooldown' > 0 => InputDisabled'

\* C8, as stated: ... and submission becomes enabled again exactly at the
\* tick on which the counter reaches 0, not earlier and not later.
C8_Original ==
    [][/\ CooldownSteps
       /\ (lastEvent' = "tick" /\ rateLimitCooldown' = 0) => ~InputDisabled']_vars

\* C8, amended: after an accepted submit the counter is 3, each tick takes
\* exactly 1 off it down to 0 and never below, and submission is disabled
\* while the counter is above 0; at the tick on which it reaches 0 submission
\* is enabled again if no response is loading, and stays disabled while one
\* is.
C8_CooldownCountsDown ==
    [][/\ CooldownSteps
       /\ (lastEvent' = "tick" /\ rateLimitCooldown' = 0)
            => (InputDisabled' <=> isLoading')]_vars

C8_Witness ==
    /\ lastEvent = "tick"
    /\ rateLimitCooldown = 0
    /\ ~InputDisabled

\* C9, as stated: never more than one request in flight, and no request is
\* issued while a response is streaming or the cooldown counter is above 0.
C9_Original ==
    [][/\ inFlight' <= 1
       /\ inFlight' > inFlight => (~isLoading /\ rateLimitCooldown = 0)]_vars

IsPrefix(s, t) == Len(s) <= Len(t) /\ \A i \in 1..Len(s) : t[i] = s[i]

\* C10, as stated: until the page is loaded anew the history only grows by
\* appending; a retry with a non-empty history issues a request for the last
\* turn and one with an empty history does nothing.
C10_Original ==
    [][/\ lastEvent' # "load" => IsPrefix(messages, messages')
       /\ (RetryStep /\ Len(messages) > 0) => inFlight' = inFlight + 1
       /\ (RetryStep /\ Len(messages) = 0)
            => (inFlight' = inFlight /\ isLoading' = isLoading /\ error' = error)]_vars

\* The error responses POST can return to the page, whose requests always
\* carry a JSON object: the missing-credential response and every response
\* of the catch block.
EndpointErrorResponses ==
    {ApiKeyMissingResponse} \cup ({Catch(e) : e \in ThrownValues} \ {Escaped})

\* The notice the endpoint's type calls for.
TypeCategory(r) ==
    IF "type" \in DOMAIN r.body /\ r.body.type = "quota_exceeded" THEN "quota"
    ELSE IF "type" \in DOMAIN r.body /\ r.body.type = "rate_limit" THEN "rate limit"
    ELSE "generic"

\* The notice the toast shows, by its title.
ToastCategory(title) ==
    IF title = "Quota Exceeded" THEN "quota"
    ELSE IF title = "Rate Limited" THEN "rate limit"
    ELSE "generic"

\* The notice the banner shows, by its text.
BannerCategory(text) ==
    IF text = "API quota exceeded" THEN "quota"
    ELSE IF text = "Rate limit exceeded" THEN "rate limit"
    ELSE "generic"

\* C11, as stated: for every error response of the endpoint, the page's
\* classification of the resulting error message selects the notice that
\* matches the endpoint's type (quota_exceeded: quota, rate_limit: rate
\* limit, anything else: generic), and the toast and the banner select the
\* same notice.
C11_Original ==
    error.set
    => \A r \in EndpointErrorResponses :
         ResponseText(r) = error.message
         => /\ ToastCategory(toast) = TypeCategory(r)
            /\ BannerCategory(BannerText(error.message)) = TypeCategory(r)
            /\ ToastCategory(toast) = BannerCategory(BannerText(error.message))

====
